---------------------------- MODULE Spec2Model ----------------------------
(***************************************************************************)
(* Layer-wise phoneme probing of Wav2Vec2 hidden states: the alignment of  *)
(* frame vectors to phoneme segments (sort_states_per_phoneme), the label  *)
(* collapsing table (phoneme_mapping), the dataset builder (data_loader,   *)
(* balance_classes) and the probing loop, as state machines.               *)
(***************************************************************************)
EXTENDS Integers, Sequences, FiniteSets, TLC

(***************************************************************************)
(* IEEE-754 binary64 arithmetic, as Python's float uses it.  A positive    *)
(* float is [hi, lo, e] with the 53-bit significand hi * 2^27 + lo in      *)
(* [2^52, 2^53) and the value significand * 2^e; zero is [0, 0, 0].  The   *)
(* significand is kept in two 27-bit limbs so that no intermediate value   *)
(* leaves TLC's 32-bit integers.                                           *)
(***************************************************************************)
Limb == 2^27

HiMin == 2^25

FZero == [hi |-> 0, lo |-> 0, e |-> 0]

\* (hi, lo) doubled, plus a low bit
Dbl(p, bit) ==
    <<2 * p[1] + ((2 * p[2] + bit) \div Limb), (2 * p[2] + bit) % Limb>>

\* p >= q on two-limb naturals
Geq(p, q) == p[1] > q[1] \/ (p[1] = q[1] /\ p[2] >= q[2])

\* p - q on two-limb naturals, p >= q
Sub(p, q) ==
    IF p[2] >= q[2] THEN <<p[1] - q[1], p[2] - q[2]>>
    ELSE <<p[1] - q[1] - 1, p[2] + Limb - q[2]>>

\* bit k (0 = least significant) of a two-limb natural
BitOf(p, k) ==
    IF k < 27 THEN (p[2] \div (2^k)) % 2 ELSE (p[1] \div (2^(k - 27))) % 2

RECURSIVE Normalize(_, _)
Normalize(p, e) ==
    IF p[1] >= HiMin THEN [hi |-> p[1], lo |-> p[2], e |-> e]
    ELSE Normalize(Dbl(p, 0), e - 1)

\* int -> float, exact for 0 <= n < 2^31
FromInt(n) ==
    IF n = 0 THEN FZero ELSE Normalize(<<n \div Limb, n % Limb>>, 0)

\* One step of binary long division by d: the next dividend bit is shifted
\* into the remainder st[2], and the quotient st[1] gains one bit.
DivStep(d, bit, st) ==
    LET r2 == Dbl(st[2], bit)
    IN  IF Geq(r2, d) THEN <<Dbl(st[1], 1), Sub(r2, d)>>
        ELSE <<Dbl(st[1], 0), r2>>

\* Long division of the significand x (followed by as many zeros as needed)
\* by d, until the quotient has 53 significant bits: <<i, quotient,
\* remainder>> with i the number of dividend bits consumed.
RECURSIVE DivLoop(_, _, _, _)
DivLoop(x, d, i, st) ==
    IF st[1][1] >= HiMin THEN <<i, st[1], st[2]>>
    ELSE DivLoop(x, d, i + 1,
                 DivStep(d, IF i < 53 THEN BitOf(x, 52 - i) ELSE 0, st))

\* x / y, y > 0, rounded to nearest, ties to even
FDiv(num, den) ==
    IF num.hi = 0 THEN FZero
    ELSE LET ym == <<den.hi, den.lo>>
             qr == DivLoop(<<num.hi, num.lo>>, ym, 0, <<(<<0, 0>>), (<<0, 0>>)>>)
             q  == qr[2]
             r2 == Dbl(qr[3], 0)
             up == (r2 # ym /\ Geq(r2, ym)) \/ (r2 = ym /\ q[2] % 2 = 1)
             q1 == IF ~up THEN q
                   ELSE IF q[2] + 1 < Limb THEN <<q[1], q[2] + 1>>
                   ELSE <<q[1] + 1, 0>>
             e  == num.e - den.e - (qr[1] - 53)
         IN  IF q1[1] >= 2 * HiMin
             THEN [hi |-> HiMin, lo |-> 0, e |-> e + 1]
             ELSE [hi |-> q1[1], lo |-> q1[2], e |-> e]

\* math.floor of a float 0 <= x < 2^31
FFloor(x) ==
    LET s == 0 - x.e
    IN  IF x.hi = 0 \/ s > 53 THEN 0
        ELSE IF s >= 27 THEN x.hi \div (2^(s - 27))
        ELSE x.hi * (2^(27 - s)) + (x.lo \div (2^s))

\* whether a float 0 <= x < 2^31 has a fractional part
HasFrac(x) ==
    LET s == 0 - x.e
    IN  IF x.hi = 0 THEN FALSE
        ELSE IF s > 53 THEN TRUE
        ELSE IF s >= 27 THEN x.lo # 0 \/ x.hi % (2^(s - 27)) # 0
        ELSE x.lo % (2^s) # 0

\* math.ceil of a float 0 <= x < 2^31
FCeil(x) == FFloor(x) + (IF HasFrac(x) THEN 1 ELSE 0)

\* the literal 0.020: the float nearest to 20/1000
FrameLength == FDiv(FromInt(20), FromInt(1000))

SampleRate == 16000

\* the sample offsets (start, stop) the segments of the model are drawn from:
\* 0, an offset inside frame 0, and 7 frames of 320 samples
Offsets == {0, 100, 2240}

\* (offset / 16000) / 0.020 as Python computes it, tabulated for the
\* offsets of S
RECURSIVE FrameTimes(_)
FrameTimes(S) ==
    IF S = {} THEN <<>>
    ELSE LET s == CHOOSE o \in S : TRUE
         IN  (s :> FDiv(FDiv(FromInt(s), FromInt(SampleRate)), FrameLength))
                 @@ FrameTimes(S \ {s})

FrameTime == FrameTimes(Offsets)

\* math.floor((start / 16000) / 0.020)
StartIndex(start) == FFloor(FrameTime[start])

\* The stop frame rounded down
StopIndexFloor(stop) == FFloor(FrameTime[stop])

\* math.ceil((stop / 16000) / 0.020)
StopIndex(stop) == FCeil(FrameTime[stop])

(***************************************************************************)
(* Python containers.  A list is a sequence; list index i is sequence      *)
(* position i + 1.  A dict (and a defaultdict(list), a Counter) keeps its  *)
(* keys in insertion order: it is a sequence of [key, val] entries with    *)
(* distinct keys.                                                          *)
(***************************************************************************)
\* range(a, b)
Range(a, b) == IF b > a THEN [i \in 1..(b - a) |-> a + i - 1] ELSE <<>>

\* the keys of a dict, in insertion order
Keys(d) == [i \in 1..Len(d) |-> d[i].key]

KeySet(d) == {d[i].key : i \in 1..Len(d)}

\* d[k] for a key the dict holds
Get(d, k) == d[CHOOSE i \in 1..Len(d) : d[i].key = k].val

\* Extend as a deduplicating table would do it: an element the list already
\* holds is not added again
ExtendOnce(d, k, xs) ==
    IF k \in {d[i].key : i \in 1..Len(d)}
    THEN [i \in 1..Len(d) |->
            IF d[i].key = k
            THEN [key |-> k,
                  val |-> d[i].val \o
                          SelectSeq(xs, LAMBDA x :
                              \A j \in 1..Len(d[i].val) : d[i].val[j] # x)]
            ELSE d[i]]
    ELSE Append(d, [key |-> k, val |-> xs])

\* d[k].extend(xs) on a defaultdict(list): a missing key is inserted, last
Extend(d, k, xs) ==
    IF k \in KeySet(d)
    THEN [i \in 1..Len(d) |->
            IF d[i].key = k THEN [key |-> k, val |-> d[i].val \o xs] ELSE d[i]]
    ELSE Append(d, [key |-> k, val |-> xs])

\* how often x occurs in the list xs
Count(xs, x) == Cardinality({i \in 1..Len(xs) : xs[i] = x})

(***************************************************************************)
(* sort_states_per_phoneme(data, frame_states, num_layers)                 *)
(*   data[u]            : [start, stop, utterance], three parallel lists   *)
(*                        (the "phonetic_detail" of utterance u)           *)
(*   frame_states[l][u] : the frame vectors of utterance u at layer l; the *)
(*                        vector of frame idx is the triple <<l, u, idx>>  *)
(***************************************************************************)
\* phoneme_indeces after the first n segments of the zip
RECURSIVE PhonemeIndeces(_, _)
PhonemeIndeces(phonemes, n) ==
    IF n = 0 THEN <<>>
    ELSE Extend(PhonemeIndeces(phonemes, n - 1), phonemes.utterance[n],
                Range(StartIndex(phonemes.start[n]), StopIndex(phonemes.stop[n])))

\* zip(...) stops with the shortest of the three lists
ZipLen(phonemes) ==
    LET a == Len(phonemes.start)
        b == Len(phonemes.stop)
        c == Len(phonemes.utterance)
        ab == IF a < b THEN a ELSE b
    IN  IF ab < c THEN ab ELSE c

\* the condition off by one: idx <= len(waveform)
KeepOneMore(waveform, idx) == idx <= Len(waveform)

\* the condition of the comprehension: idx < len(waveform)
Keep(waveform, idx) == idx < Len(waveform)

\* whether waveform[idx] raises IndexError
IndexError(waveform, idx) == idx >= Len(waveform) \/ idx < 0 - Len(waveform)

\* waveform[idx], Python's negative indices included
Item(waveform, idx) ==
    IF idx >= 0 THEN waveform[idx + 1] ELSE waveform[Len(waveform) + idx + 1]

\* [waveform[idx] for idx in indeces if idx < len(waveform)], when no
\* waveform[idx] raises
RECURSIVE PhonemeStates(_, _)
PhonemeStates(waveform, indeces) ==
    IF indeces = <<>> THEN <<>>
    ELSE LET rest == PhonemeStates(waveform, Tail(indeces))
         IN  IF Keep(waveform, Head(indeces))
             THEN <<Item(waveform, Head(indeces))>> \o rest
             ELSE rest

\* whether the comprehension raises
StatesRaise(waveform, indeces) ==
    \E i \in 1..Len(indeces) :
        Keep(waveform, indeces[i]) /\ IndexError(waveform, indeces[i])

\* the second inner loop: the first n items of phoneme_indeces are added to
\* the table of one layer
RECURSIVE AddStates(_, _, _, _)
AddStates(table, waveform, indeces, n) ==
    IF n = 0 THEN table
    ELSE Extend(AddStates(table, waveform, indeces, n - 1), indeces[n].key,
                PhonemeStates(waveform, indeces[n].val))

\* one layer's table after the first n waveforms
RECURSIVE SortLayer(_, _, _)
SortLayer(corpus, layer, n) ==
    IF n = 0 THEN <<>>
    ELSE LET indeces == PhonemeIndeces(corpus[n], ZipLen(corpus[n]))
         IN  AddStates(SortLayer(corpus, layer, n - 1), layer[n], indeces,
                       Len(indeces))

\* whether the call raises
SortRaises(corpus, states, layers) ==
    \E l \in 0..(layers - 1) : \E u \in 1..Len(states[l]) :
        LET indeces == PhonemeIndeces(corpus[u], ZipLen(corpus[u]))
        IN  \E k \in 1..Len(indeces) : StatesRaise(states[l][u], indeces[k].val)

\* A sort that returns after the first layer
SortFirstLayerOnly(corpus, states, layers) ==
    [l \in 0..(layers - 1) |->
        IF l = 0 THEN SortLayer(corpus, states[l], Len(states[l])) ELSE <<>>]

\* the value returned: frame_states_per_phoneme
SortStatesPerPhoneme(corpus, states, layers) ==
    [l \in 0..(layers - 1) |-> SortLayer(corpus, states[l], Len(states[l]))]

(***************************************************************************)
(* balance_classes(X_instances, y_labels)                                  *)
(***************************************************************************)
\* A Counter that puts a label it first meets in front of the others
RECURSIVE CounterNewestFirst(_, _)
CounterNewestFirst(labels, n) ==
    IF n = 0 THEN <<>>
    ELSE LET c == CounterNewestFirst(labels, n - 1)
             k == labels[n]
         IN  IF k \in {c[i].key : i \in 1..Len(c)}
             THEN [c EXCEPT ![CHOOSE i \in 1..Len(c) : c[i].key = k].val = @ + 1]
             ELSE <<[key |-> k, val |-> 1]>> \o c

\* Counter(y_labels) after the first n labels: label -> count, the labels in
\* the order they are first met
RECURSIVE Counter(_, _)
Counter(labels, n) ==
    IF n = 0 THEN <<>>
    ELSE LET c == Counter(labels, n - 1)
             k == labels[n]
         IN  IF k \in KeySet(c)
             THEN [c EXCEPT ![CHOOSE i \in 1..Len(c) : c[i].key = k].val = @ + 1]
             ELSE Append(c, [key |-> k, val |-> 1])

\* max(class_distribution.values())
MaxValue(c) ==
    CHOOSE m \in {c[i].val : i \in 1..Len(c)} : \A i \in 1..Len(c) : c[i].val <= m

\* min(class_distribution.values()), of a Counter that is not empty
MinValue(c) ==
    CHOOSE m \in {c[i].val : i \in 1..Len(c)} : \A i \in 1..Len(c) : m <= c[i].val

\* zip(X_instances, y_labels) stops with the shorter list
PairLen(Xs, ys) == IF Len(Xs) < Len(ys) THEN Len(Xs) ELSE Len(ys)

\* The inner loop run with the test before the append: it breaks one
\* instance early.
RECURSIVE TakeEarly(_, _, _, _, _, _, _)
TakeEarly(Xs, ys, label, m, k, i, got) ==
    IF k > PairLen(Xs, ys) THEN <<>>
    ELSE IF ys[k] # label THEN TakeEarly(Xs, ys, label, m, k + 1, i, got)
    ELSE IF i = m THEN got
    ELSE TakeEarly(Xs, ys, label, m, k + 1, i + 1, Append(got, <<Xs[k], ys[k]>>))

\* The inner loop of one label, from pair k on, with counter i and the
\* pairs collected so far: the pairs that the break hands to extend, or none
\* when the loop ends without reaching the break.
RECURSIVE Take(_, _, _, _, _, _, _)
Take(Xs, ys, label, m, k, i, got) ==
    IF k > PairLen(Xs, ys) THEN <<>>
    ELSE IF ys[k] # label THEN Take(Xs, ys, label, m, k + 1, i, got)
    ELSE IF i = m THEN Append(got, <<Xs[k], ys[k]>>)
    ELSE Take(Xs, ys, label, m, k + 1, i + 1, Append(got, <<Xs[k], ys[k]>>))

\* num_instances_per_class
PerClass(c) == MinValue(c)

\* the outer loop over the first n labels of class_distribution: the pairs
\* of balanced_data_X and balanced_data_y
RECURSIVE Balanced(_, _, _, _)
Balanced(Xs, ys, c, n) ==
    IF n = 0 THEN <<>>
    ELSE Balanced(Xs, ys, c, n - 1) \o Take(Xs, ys, c[n].key, PerClass(c), 1, 1, <<>>)

\* whether the call raises: min() of an empty sequence is a ValueError
BalanceRaises(Xs, ys) == ys = <<>>

\* the value returned, as [X, y], when the call does not raise
BalanceClasses(Xs, ys) ==
    LET pairs == Balanced(Xs, ys, Counter(ys, Len(ys)), Len(Counter(ys, Len(ys))))
    IN  [X |-> [i \in 1..Len(pairs) |-> pairs[i][1]],
         y |-> [i \in 1..Len(pairs) |-> pairs[i][2]]]

(***************************************************************************)
(* phoneme_mapping and data_loader(hidden_state_dict, layer_idx,           *)
(* target_phonemes)                                                        *)
(***************************************************************************)
phoneme_mapping ==
    ("p" :> "p") @@ ("b" :> "b") @@ ("t" :> "t") @@ ("d" :> "d") @@
    ("k" :> "k") @@ ("g" :> "g") @@ ("dx" :> "dx") @@ ("f" :> "f") @@
    ("v" :> "v") @@ ("dh" :> "dh") @@ ("th" :> "th") @@ ("s" :> "s") @@
    ("z" :> "z") @@ ("r" :> "r") @@ ("w" :> "w") @@ ("y" :> "y") @@
    ("jh" :> "jh") @@ ("ch" :> "ch") @@ ("iy" :> "iy") @@ ("eh" :> "eh") @@
    ("ey" :> "ey") @@ ("ae" :> "ae") @@ ("aw" :> "aw") @@ ("ay" :> "ay") @@
    ("oy" :> "oy") @@ ("ow" :> "ow") @@ ("uh" :> "uh") @@ ("ah" :> "ah") @@
    ("ax" :> "ah") @@ ("ax-h" :> "ah") @@ ("aa" :> "aa") @@ ("ao" :> "aa") @@
    ("er" :> "er") @@ ("axr" :> "er") @@ ("hh" :> "hh") @@ ("hv" :> "hh") @@
    ("ih" :> "ih") @@ ("ix" :> "ih") @@ ("l" :> "l") @@ ("el" :> "l") @@
    ("m" :> "m") @@ ("em" :> "m") @@ ("n" :> "n") @@ ("en" :> "n") @@
    ("nx" :> "n") @@ ("ng" :> "ng") @@ ("eng" :> "ng") @@ ("sh" :> "sh") @@
    ("zh" :> "sh") @@ ("uw" :> "uw") @@ ("ux" :> "uw") @@ ("pcl" :> "sil") @@
    ("bcl" :> "sil") @@ ("tcl" :> "sil") @@ ("dcl" :> "sil") @@ ("kcl" :> "sil") @@
    ("gcl" :> "sil") @@ ("h#" :> "sil") @@ ("pau" :> "sil") @@ ("epi" :> "sil")

\* Python's None
None == <<"None">>

\* A lookup that leaves out the last but few entries of the table: 'eng'
LookupWithoutEng(ph) ==
    IF ph \in DOMAIN phoneme_mapping \ {"eng"}
    THEN [raised |-> FALSE, label |-> phoneme_mapping[ph]]
    ELSE [raised |-> TRUE, label |-> "KeyError"]

\* A lookup with a default, phoneme_mapping.get(phoneme, phoneme)
LookupOrSelf(ph) ==
    IF ph \in DOMAIN phoneme_mapping
    THEN [raised |-> FALSE, label |-> phoneme_mapping[ph]]
    ELSE [raised |-> FALSE, label |-> ph]

\* phoneme_mapping[phoneme]: the coarse label, or a KeyError
Lookup(ph) ==
    IF ph \in DOMAIN phoneme_mapping
    THEN [raised |-> FALSE, label |-> phoneme_mapping[ph]]
    ELSE [raised |-> TRUE, label |-> "KeyError"]

\* The conditions without the test phoneme != 'q'
WantedWithQ(ph, i, target) ==
    /\ i # None
    /\ target = None \/ \E t \in 1..Len(target) : target[t] = ph

\* the three conditions under which a vector i stored under phoneme is
\* appended; target_phonemes is None or a list
Wanted(ph, i, target) ==
    /\ i # None
    /\ ph # "q"
    /\ target = None \/ \E t \in 1..Len(target) : target[t] = ph

\* The inner loop appending the fine-grained label itself
RECURSIVE LoadListRawLabel(_, _, _, _)
LoadListRawLabel(ph, list, target, n) ==
    IF n = 0 THEN <<>>
    ELSE LoadListRawLabel(ph, list, target, n - 1) \o
         (IF Wanted(ph, list[n], target) THEN <<(<<list[n], ph>>)>> ELSE <<>>)

\* the pairs <<x, y>> appended for the first n vectors of one list
RECURSIVE LoadList(_, _, _, _)
LoadList(ph, list, target, n) ==
    IF n = 0 THEN <<>>
    ELSE LoadList(ph, list, target, n - 1) \o
         (IF Wanted(ph, list[n], target)
          THEN <<(<<list[n], Lookup(ph).label>>)>> ELSE <<>>)

\* the pairs appended for the first n items of hidden_state_dict[layer_idx]
RECURSIVE LoadItems(_, _, _)
LoadItems(table, target, n) ==
    IF n = 0 THEN <<>>
    ELSE LoadItems(table, target, n - 1) \o
         LoadList(table[n].key, table[n].val, target, Len(table[n].val))

\* whether the call raises: a wanted vector whose label the lookup misses
LoaderRaises(dict, layer, target) ==
    \E n \in 1..Len(dict[layer]) : \E j \in 1..Len(dict[layer][n].val) :
        /\ Wanted(dict[layer][n].key, dict[layer][n].val[j], target)
        /\ Lookup(dict[layer][n].key).raised

\* A loader that reads the first layer whatever layer is asked for
DataLoaderFirstLayer(dict, layer, target) ==
    LET pairs == LoadItems(dict[0], target, Len(dict[0]))
    IN  [X |-> [i \in 1..Len(pairs) |-> pairs[i][1]],
         y |-> [i \in 1..Len(pairs) |-> pairs[i][2]]]

\* the value returned, as [X, y], when the call does not raise
DataLoader(dict, layer, target) ==
    LET pairs == LoadItems(dict[layer], target, Len(dict[layer]))
    IN  [X |-> [i \in 1..Len(pairs) |-> pairs[i][1]],
         y |-> [i \in 1..Len(pairs) |-> pairs[i][2]]]

(***************************************************************************)
(* The probing loop: for every category of phoneme_dict and every layer,   *)
(* a probe is fitted on the balanced train data and scored on the balanced *)
(* test data.                                                              *)
(***************************************************************************)
phoneme_dict ==
    <<[key |-> "stops",        val |-> <<"p", "t", "k", "b", "d", "g">>],
      [key |-> "fricatives",   val |-> <<"f", "v", "th", "dh", "s", "z", "sh">>],
      [key |-> "nasals",       val |-> <<"m", "n", "ng">>],
      [key |-> "approximants", val |-> <<"l", "w", "y", "hh">>],
      [key |-> "vowels",       val |-> <<"aa", "ow", "iy", "eh", "uh">>]>>

\* the distinct labels of a list
LabelSet(labels) == {labels[i] : i \in 1..Len(labels)}

\* The classifier calls are left open in the notebook ("YOUR CODE HERE");
\* they are modelled after the classifier interface of the design: fit
\* replaces what the probe has learnt by the classes of the train data,
\* and the liblinear solver refuses data of fewer than two classes.
FitRaises(labels) == Cardinality(LabelSet(labels)) < 2

\* A fit that keeps what the probe had learnt before
FitWarm(probe, features, labels) ==
    [classes |-> probe.classes \cup LabelSet(labels),
     first |-> IF probe.classes = {} THEN labels[1] ELSE probe.first]

\* fit starts from nothing: what the probe had learnt before is discarded
Fit(probe, features, labels) ==
    [classes |-> LabelSet(labels), first |-> labels[1]]

\* predict: the label of a test vector <<layer, phoneme, place>> is its
\* coarse label when the probe has learnt that class, and else the class of
\* the first train instance
Predict(probe, features) ==
    [i \in 1..Len(features) |->
        IF Lookup(features[i][2]).label \in probe.classes
        THEN Lookup(features[i][2]).label ELSE probe.first]

\* accuracy_score(test_y, test_pred): the fraction of exact matches, as
\* <<matches, total>>
AccuracyScore(truth, pred) ==
    <<Cardinality({i \in 1..Len(truth) : truth[i] = pred[i]}), Len(truth)>>

\* An accumulator that grows at the front
RecordInFront(list, acc) == <<acc>> \o list

\* accs.append(test_acc)
RecordAccuracy(list, acc) == Append(list, acc)

(***************************************************************************)
(* extract_hidden_states(model, processor, inputs, num_layers).  The        *)
(* encoder's hidden outputs for one waveform, transformer_layers, are a     *)
(* sequence of layers, each a batch of waveforms, each a sequence of frames.*)
(***************************************************************************)
\* frame_states as initialised: an empty list for every layer and waveform
EmptyFrameStates(n, layers) ==
    [l \in 0..(layers - 1) |-> [w \in 0..(n - 1) |-> <<>>]]

\* The inner loop putting each frame in front of the list
RECURSIVE SaveFramesInFront(_, _, _)
SaveFramesInFront(list, frames, k) ==
    IF k = 0 THEN list
    ELSE <<frames[k]>> \o SaveFramesInFront(list, frames, k - 1)

\* for frame in waveform: frame_states[layer_idx][waveform_idx].append(frame),
\* for the first k frames
RECURSIVE SaveFrames(_, _, _)
SaveFrames(list, frames, k) ==
    IF k = 0 THEN list
    ELSE Append(SaveFrames(list, frames, k - 1), frames[k])

\* for waveform in layer: the first b members of the batch
RECURSIVE SaveLayer(_, _, _)
SaveLayer(list, layer, b) ==
    IF b = 0 THEN list
    ELSE SaveFrames(SaveLayer(list, layer, b - 1), layer[b], Len(layer[b]))

\* whether saving raises: frame_states[layer_idx] is a KeyError for a layer
\* the table was not initialised with
SaveRaises(table, layers) ==
    \E l \in 0..(Len(layers) - 1) : l \notin DOMAIN table

\* the table after the layers of waveform w are saved, up to the layer that
\* raises if one does
SaveWaveform(table, w, layers) ==
    [l \in DOMAIN table |->
        IF l < Len(layers)
        THEN [table[l] EXCEPT ![w] = SaveLayer(@, layers[l + 1], Len(layers[l + 1]))]
        ELSE table[l]]

(***************************************************************************)
(* The state.  pc names the step a run is at; every specification below    *)
(* uses the variables of its own component and leaves the others idle.     *)
(***************************************************************************)
VARIABLES pc, data, frame_states, frame_states_per_phoneme,
          X_instances, y_labels, balanced_data_X, balanced_data_y,
          again_X, again_y,
          phoneme, coarse,
          hidden_state_dict, loader_layer_idx, target_phonemes, X, y,
          phoneme_states_train, phoneme_states_test, phoneme_category,
          layer_idx, layer_probes, train_X, train_y, test_X, test_y,
          accs, accs_per_category,
          hidden_states, waveform_idx

alignVars == <<data, frame_states, frame_states_per_phoneme>>

balanceVars == <<X_instances, y_labels, balanced_data_X, balanced_data_y,
                 again_X, again_y>>

collapseVars == <<phoneme, coarse>>

loadVars == <<hidden_state_dict, loader_layer_idx, target_phonemes, X, y>>

probeVars == <<phoneme_states_train, phoneme_states_test, phoneme_category,
               layer_idx, layer_probes, train_X, train_y, test_X, test_y,
               accs, accs_per_category>>

extractVars == <<hidden_states, waveform_idx>>

vars == <<pc, alignVars, balanceVars, collapseVars, loadVars, probeVars,
          extractVars>>

AlignIdle == data = <<>> /\ frame_states = <<>> /\ frame_states_per_phoneme = <<>>

BalanceIdle ==
    /\ X_instances = <<>> /\ y_labels = <<>>
    /\ balanced_data_X = <<>> /\ balanced_data_y = <<>>
    /\ again_X = <<>> /\ again_y = <<>>

CollapseIdle == phoneme = "" /\ coarse = ""

LoadIdle ==
    /\ hidden_state_dict = <<>> /\ loader_layer_idx = 0
    /\ target_phonemes = <<>> /\ X = <<>> /\ y = <<>>

ExtractIdle == hidden_states = <<>> /\ waveform_idx = 0

ProbeIdle ==
    /\ phoneme_states_train = <<>> /\ phoneme_states_test = <<>>
    /\ phoneme_category = 0 /\ layer_idx = 0 /\ layer_probes = <<>>
    /\ train_X = <<>> /\ train_y = <<>> /\ test_X = <<>> /\ test_y = <<>>
    /\ accs = <<>> /\ accs_per_category = <<>>

(***************************************************************************)
(* The inputs of sort_states_per_phoneme: a corpus of NumUtts utterances   *)
(* with at most MaxSegs segments in all, and the frame vectors of each     *)
(* utterance at each of NumLayers layers.                                  *)
(***************************************************************************)
NumLayers == 2

NumUtts == 2

MaxSegs == 2

Phonemes == {"m", "n"}

\* a segment <<start, stop, phoneme>>: empty (start = stop) or from one of
\* the offsets to the next one
Segments ==
    {seg \in Offsets \X Offsets \X Phonemes :
        /\ seg[1] <= seg[2]
        /\ \A o \in Offsets : ~(seg[1] < o /\ o < seg[2])}

\* the segment lists of at most n segments
RECURSIVE SegLists(_)
SegLists(n) ==
    IF n = 0 THEN {<<>>}
    ELSE LET shorter == SegLists(n - 1)
         IN  shorter \cup {Append(sl, seg) : sl \in shorter, seg \in Segments}

\* the corpora of u utterances with at most n segments in all
RECURSIVE Corpora(_, _)
Corpora(u, n) ==
    IF u = 0 THEN {<<>>}
    ELSE UNION {{Append(c, sl) : c \in Corpora(u - 1, n - Len(sl))} :
                sl \in SegLists(n)}

\* a segment list as the three parallel lists of "phonetic_detail"
Detail(sl) ==
    [start     |-> [i \in 1..Len(sl) |-> sl[i][1]],
     stop      |-> [i \in 1..Len(sl) |-> sl[i][2]],
     utterance |-> [i \in 1..Len(sl) |-> sl[i][3]]]

\* the frame counts of an utterance at the first layer
FrameCounts == {1, 8}

\* The frame-state table of utterances with n[u] frames, the last layer
\* being shorter by `loss` frames (an encoder may shorten deeper layers).
FrameStates(n, loss) ==
    [l \in 0..(NumLayers - 1) |->
        [u \in 1..NumUtts |->
            [i \in 1..(IF l < NumLayers - 1 THEN n[u]
                       ELSE IF n[u] > loss THEN n[u] - loss ELSE 0) |->
                <<l, u - 1, i - 1>>]]]

InitAlign ==
    /\ pc = "sort"
    /\ \E c \in Corpora(NumUtts, MaxSegs) :
           data = [u \in 1..NumUtts |-> Detail(c[u])]
    /\ \E n \in [1..NumUtts -> FrameCounts] :
       \E loss \in {0, 1} : frame_states = FrameStates(n, loss)
    /\ frame_states_per_phoneme = <<>>
    /\ BalanceIdle /\ CollapseIdle /\ LoadIdle /\ ProbeIdle /\ ExtractIdle

\* phoneme_states = sort_states_per_phoneme(data, frame_states, num_layers)
Sort ==
    /\ pc = "sort"
    /\ IF SortRaises(data, frame_states, NumLayers)
       THEN pc' = "IndexError" /\ UNCHANGED frame_states_per_phoneme
       ELSE /\ pc' = "sorted"
            /\ frame_states_per_phoneme' =
                   SortStatesPerPhoneme(data, frame_states, NumLayers)
    /\ UNCHANGED <<data, frame_states, balanceVars, collapseVars, loadVars,
                   probeVars, extractVars>>

NextAlign == Sort

SpecAlign == InitAlign /\ [][NextAlign]_vars

(***************************************************************************)
(* balance_classes on every pair of lists of at most MaxLen instances, and *)
(* then on its own output.                                                 *)
(***************************************************************************)
MaxLen == 4

\* the coarse labels and the instances the lists are drawn from
Classes == {"m", "n", "ng"}

Instances == {1, 2}

InitBalance ==
    /\ pc = "balance"
    /\ \E n \in 0..MaxLen :
           /\ X_instances \in [1..n -> Instances]
           /\ y_labels \in [1..n -> Classes]
    /\ balanced_data_X = <<>> /\ balanced_data_y = <<>>
    /\ again_X = <<>> /\ again_y = <<>>
    /\ AlignIdle /\ CollapseIdle /\ LoadIdle /\ ProbeIdle /\ ExtractIdle

\* balanced_X, balanced_y = balance_classes(X_instances, y_labels)
Balance ==
    /\ pc = "balance"
    /\ IF BalanceRaises(X_instances, y_labels)
       THEN pc' = "ValueError" /\ UNCHANGED <<balanced_data_X, balanced_data_y>>
       ELSE /\ pc' = "balanced"
            /\ balanced_data_X' = BalanceClasses(X_instances, y_labels).X
            /\ balanced_data_y' = BalanceClasses(X_instances, y_labels).y
    /\ UNCHANGED <<X_instances, y_labels, again_X, again_y, alignVars,
                   collapseVars, loadVars, probeVars, extractVars>>

\* balance_classes applied to its own output
BalanceAgain ==
    /\ pc = "balanced"
    /\ IF BalanceRaises(balanced_data_X, balanced_data_y)
       THEN pc' = "ValueError" /\ UNCHANGED <<again_X, again_y>>
       ELSE /\ pc' = "balanced again"
            /\ again_X' = BalanceClasses(balanced_data_X, balanced_data_y).X
            /\ again_y' = BalanceClasses(balanced_data_X, balanced_data_y).y
    /\ UNCHANGED <<X_instances, y_labels, balanced_data_X, balanced_data_y,
                   alignVars, collapseVars, loadVars, probeVars, extractVars>>

NextBalance == Balance \/ BalanceAgain

SpecBalance == InitBalance /\ [][NextBalance]_vars

(***************************************************************************)
(* One lookup in phoneme_mapping, for every label of the corpus's          *)
(* vocabulary and one label from outside it.                               *)
(***************************************************************************)
\* the 61 phoneme labels of the TIMIT transcriptions
TimitLabels ==
    {"iy", "ih", "eh", "ey", "ae", "aa", "aw", "ay", "ah", "ao", "oy", "ow",
     "uh", "uw", "ux", "er", "ax", "ix", "axr", "ax-h", "jh", "ch", "b", "d",
     "g", "p", "t", "k", "dx", "s", "sh", "z", "zh", "f", "th", "v", "dh",
     "m", "n", "ng", "em", "nx", "en", "eng", "l", "r", "w", "y", "hh", "hv",
     "el", "bcl", "dcl", "gcl", "pcl", "tcl", "kcl", "q", "pau", "epi", "h#"}

\* a label that is not one of them
Unknown == "zz"

InitCollapse ==
    /\ pc = "lookup"
    /\ phoneme \in TimitLabels \cup {Unknown}
    /\ coarse = ""
    /\ AlignIdle /\ BalanceIdle /\ LoadIdle /\ ProbeIdle /\ ExtractIdle

\* coarse = phoneme_mapping[phoneme]
Collapse ==
    /\ pc = "lookup"
    /\ IF Lookup(phoneme).raised
       THEN pc' = "KeyError" /\ UNCHANGED coarse
       ELSE pc' = "collapsed" /\ coarse' = Lookup(phoneme).label
    /\ UNCHANGED <<phoneme, alignVars, balanceVars, loadVars, probeVars, extractVars>>

NextCollapse == Collapse

SpecCollapse == InitCollapse /\ [][NextCollapse]_vars

(***************************************************************************)
(* data_loader on every phoneme-state table of at most MaxVecs vectors.    *)
(* The table has the same keys and list lengths at every layer; the vector *)
(* at place j of the list of phoneme p at layer l is <<l, p, j>>, or None. *)
(***************************************************************************)
MaxVecs == 2

\* a known label, a label that collapses onto another one, the excluded
\* label and a label the mapping does not know
LoadLabels == {"n", "em", "q", Unknown}

\* the lists of 1..n elements, each a vector (TRUE) or None (FALSE)
Masks(n) == UNION {[1..k -> BOOLEAN] : k \in 1..n}

\* the tables with keys among ks and at most n elements in all, as
\* sequences of [key, val: a mask]
RECURSIVE Shapes(_, _)
Shapes(ks, n) ==
    {<<>>} \cup
    UNION {UNION {{<<[key |-> k, val |-> m]>> \o t :
                      t \in Shapes(ks \ {k}, n - Len(m))} :
                  m \in Masks(n)} :
           k \in ks}

\* the phoneme-state table of a shape
TableOf(shape) ==
    [l \in 0..(NumLayers - 1) |->
        [e \in 1..Len(shape) |->
            [key |-> shape[e].key,
             val |-> [j \in 1..Len(shape[e].val) |->
                        IF shape[e].val[j] THEN <<l, shape[e].key, j>>
                        ELSE None]]]]

\* target_phonemes: None, or a list of one or two labels
Targets ==
    {None} \cup {<<a>> : a \in LoadLabels} \cup
    {t \in LoadLabels \X LoadLabels : t[1] # t[2]}

InitLoad ==
    /\ pc = "load"
    /\ \E shape \in Shapes(LoadLabels, MaxVecs) : hidden_state_dict = TableOf(shape)
    /\ loader_layer_idx \in 0..(NumLayers - 1)
    /\ target_phonemes \in Targets
    /\ X = <<>> /\ y = <<>>
    /\ AlignIdle /\ BalanceIdle /\ CollapseIdle /\ ProbeIdle /\ ExtractIdle

\* X, y = data_loader(hidden_state_dict, layer_idx, target_phonemes)
Load ==
    /\ pc = "load"
    /\ IF LoaderRaises(hidden_state_dict, loader_layer_idx, target_phonemes)
       THEN pc' = "KeyError" /\ UNCHANGED <<X, y>>
       ELSE /\ pc' = "loaded"
            /\ X' = DataLoader(hidden_state_dict, loader_layer_idx, target_phonemes).X
            /\ y' = DataLoader(hidden_state_dict, loader_layer_idx, target_phonemes).y
    /\ UNCHANGED <<hidden_state_dict, loader_layer_idx, target_phonemes,
                   alignVars, balanceVars, collapseVars, probeVars, extractVars>>

NextLoad == Load

SpecLoad == InitLoad /\ [][NextLoad]_vars

(***************************************************************************)
(* The probing loop on train and test tables that hold, at every layer,    *)
(* one vector for each label of ProbeLabels but for at most MaxMissing     *)
(* labels that the table lacks; the last layer of the test table may lack  *)
(* one label more (the frame lists of a deeper layer may be shorter).      *)
(***************************************************************************)
\* two labels of every category of phoneme_dict, in table order
ProbeLabels == <<"p", "t", "f", "s", "m", "n", "l", "w", "aa", "iy">>

MaxMissing == 1

\* the phoneme-state table with one vector under every label but those of S
TableWithout(S) ==
    TableOf([e \in 1..(Len(ProbeLabels) - Cardinality(S)) |->
                [key |-> SelectSeq(ProbeLabels, LAMBDA p : p \notin S)[e],
                 val |-> <<TRUE>>]])

\* the table without the labels of S, and at the last layer without those
\* of D either
TableLosing(S, D) ==
    [l \in 0..(NumLayers - 1) |->
        IF l = NumLayers - 1 THEN TableWithout(S \cup D)[l]
        ELSE TableWithout(S)[l]]

Missing == {S \in SUBSET LabelSet(ProbeLabels) : Cardinality(S) <= MaxMissing}

Lost == {{}} \cup {{p} : p \in LabelSet(ProbeLabels)}

InitProbe ==
    /\ pc = "probe"
    /\ \E S \in Missing : phoneme_states_train = TableWithout(S)
    /\ \E S \in Missing : \E D \in Lost : phoneme_states_test = TableLosing(S, D)
    /\ phoneme_category = 1
    /\ layer_idx = 0
    /\ layer_probes = [l \in 0..(NumLayers - 1) |-> [classes |-> {}, first |-> ""]]
    /\ train_X = <<>> /\ train_y = <<>> /\ test_X = <<>> /\ test_y = <<>>
    /\ accs = <<>> /\ accs_per_category = <<>>
    /\ AlignIdle /\ BalanceIdle /\ CollapseIdle /\ LoadIdle /\ ExtractIdle

\* One pass of the loop over the layers (lines 770-795): the train data are
\* loaded, balanced and fitted, the test data are loaded, balanced and
\* scored, and the accuracy is appended to accs.  An exception ends the
\* run, with the assignments made before it.
ProbeLayer ==
    LET target == phoneme_dict[phoneme_category].val
        trainL == DataLoader(phoneme_states_train, layer_idx, target)
        trainB == BalanceClasses(trainL.X, trainL.y)
        testL  == DataLoader(phoneme_states_test, layer_idx, target)
        testB  == BalanceClasses(testL.X, testL.y)
        probe  == Fit(layer_probes[layer_idx], trainB.X, trainB.y)
    IN  /\ pc = "probe"
        /\ layer_idx < NumLayers
        /\ IF LoaderRaises(phoneme_states_train, layer_idx, target)
           THEN /\ pc' = "KeyError"
                /\ UNCHANGED <<train_X, train_y, test_X, test_y, layer_probes,
                               accs, layer_idx>>
           ELSE IF BalanceRaises(trainL.X, trainL.y)
           THEN /\ pc' = "ValueError"
                /\ train_X' = trainL.X /\ train_y' = trainL.y
                /\ UNCHANGED <<test_X, test_y, layer_probes, accs, layer_idx>>
           ELSE IF FitRaises(trainB.y)
           THEN /\ pc' = "ValueError"
                /\ train_X' = trainB.X /\ train_y' = trainB.y
                /\ UNCHANGED <<test_X, test_y, layer_probes, accs, layer_idx>>
           ELSE IF LoaderRaises(phoneme_states_test, layer_idx, target)
           THEN /\ pc' = "KeyError"
                /\ train_X' = trainB.X /\ train_y' = trainB.y
                /\ layer_probes' = [layer_probes EXCEPT ![layer_idx] = probe]
                /\ UNCHANGED <<test_X, test_y, accs, layer_idx>>
           ELSE IF BalanceRaises(testL.X, testL.y)
           THEN /\ pc' = "ValueError"
                /\ train_X' = trainB.X /\ train_y' = trainB.y
                /\ layer_probes' = [layer_probes EXCEPT ![layer_idx] = probe]
                /\ test_X' = testL.X /\ test_y' = testL.y
                /\ UNCHANGED <<accs, layer_idx>>
           ELSE /\ pc' = "probe"
                /\ train_X' = trainB.X /\ train_y' = trainB.y
                /\ layer_probes' = [layer_probes EXCEPT ![layer_idx] = probe]
                /\ test_X' = testB.X /\ test_y' = testB.y
                /\ accs' = RecordAccuracy(accs,
                               AccuracyScore(testB.y, Predict(probe, testB.X)))
                /\ layer_idx' = layer_idx + 1
        /\ UNCHANGED <<phoneme_states_train, phoneme_states_test,
                       phoneme_category, accs_per_category,
                       alignVars, balanceVars, collapseVars, loadVars,
                   extractVars>>

\* the end of the loop over the layers: accs_per_category.append(accs), and
\* the next category starts with accs = []
NextCategory ==
    /\ pc = "probe"
    /\ layer_idx = NumLayers
    /\ accs_per_category' = Append(accs_per_category, accs)
    /\ accs' = <<>>
    /\ layer_idx' = 0
    /\ IF phoneme_category < Len(phoneme_dict)
       THEN phoneme_category' = phoneme_category + 1 /\ pc' = "probe"
       ELSE UNCHANGED phoneme_category /\ pc' = "done"
    /\ UNCHANGED <<phoneme_states_train, phoneme_states_test, layer_probes,
                   train_X, train_y, test_X, test_y,
                   alignVars, balanceVars, collapseVars, loadVars,
                   extractVars>>

NextProbe == ProbeLayer \/ NextCategory

SpecProbe == InitProbe /\ [][NextProbe]_vars

(***************************************************************************)
(* extract_hidden_states on up to NumUtts waveforms with num_layers =       *)
(* NumLayers, for an encoder that returns one layer fewer, as many, or one  *)
(* layer more, and one or two frames for each waveform and layer.           *)
(***************************************************************************)
\* The forward pass is left open in the notebook ("YOUR CODE HERE"): the
\* hidden outputs of n waveforms, each a sequence of layers holding a batch
\* of one waveform of cnt[w][l] frames; a frame is <<layer, waveform, place>>
EncoderOutputs(n, layers, cnt) ==
    [w \in 0..(n - 1) |->
        [l \in 1..layers |->
            <<[i \in 1..cnt[w][l] |-> <<l - 1, w, i - 1>>]>>]]

InitExtract ==
    /\ pc = "extract"
    /\ \E n \in 1..NumUtts :
       \E layers \in {NumLayers - 1, NumLayers, NumLayers + 1} :
       \E cnt \in [0..(n - 1) -> [1..layers -> {1, 2}]] :
           /\ hidden_states = EncoderOutputs(n, layers, cnt)
           /\ frame_states = EmptyFrameStates(n, NumLayers)
    /\ waveform_idx = 0
    /\ data = <<>> /\ frame_states_per_phoneme = <<>>
    /\ BalanceIdle /\ CollapseIdle /\ LoadIdle /\ ProbeIdle

\* one pass of the loop over the waveforms (lines 412-431)
ExtractWaveform ==
    /\ pc = "extract"
    /\ waveform_idx \in DOMAIN hidden_states
    /\ frame_states' = SaveWaveform(frame_states, waveform_idx,
                                    hidden_states[waveform_idx])
    /\ IF SaveRaises(frame_states, hidden_states[waveform_idx])
       THEN pc' = "KeyError" /\ UNCHANGED waveform_idx
       ELSE pc' = "extract" /\ waveform_idx' = waveform_idx + 1
    /\ UNCHANGED <<hidden_states, data, frame_states_per_phoneme,
                   balanceVars, collapseVars, loadVars, probeVars>>

\* return frame_states
ReturnFrameStates ==
    /\ pc = "extract"
    /\ waveform_idx \notin DOMAIN hidden_states
    /\ pc' = "extracted"
    /\ UNCHANGED <<alignVars, balanceVars, collapseVars, loadVars, probeVars,
                   extractVars>>

NextExtract == ExtractWaveform \/ ReturnFrameStates

SpecExtract == InitExtract /\ [][NextExtract]_vars

(***************************************************************************)
(* data_loader followed by balance_classes, as the probing loop calls them  *)
(* (lines 773-774), on tables whose lists hold up to MaxVecs vectors and    *)
(* may hold the same vector more than once (a frame claimed by two segments *)
(* of one label is stored twice).                                           *)
(***************************************************************************)
\* the keys of the tables, in table order: "m" and "em" collapse to "m"
PairLabels == <<"n", "m", "em">>

\* the lists of up to n vector ids, and no list for an absent key
IdLists(n) == UNION {[1..k -> {1, 2}] : k \in 0..n}

\* the table with the list ids[k] under PairLabels[k], a key with no vector
\* being absent; a vector is <<layer, label, id>>
PairTable(ids) ==
    [l \in 0..(NumLayers - 1) |->
        LET present == SelectSeq(<<1, 2, 3>>, LAMBDA k : ids[k] # <<>>)
        IN  [e \in 1..Len(present) |->
                [key |-> PairLabels[present[e]],
                 val |-> [j \in 1..Len(ids[present[e]]) |->
                            <<l, PairLabels[present[e]], ids[present[e]][j]>>]]]]

PairTargets == {None, <<"n", "m">>, <<"em", "n">>}

InitPairs ==
    /\ pc = "load pairs"
    /\ \E ids \in [1..3 -> IdLists(MaxVecs)] : hidden_state_dict = PairTable(ids)
    /\ loader_layer_idx \in 0..(NumLayers - 1)
    /\ target_phonemes \in PairTargets
    /\ X = <<>> /\ y = <<>>
    /\ X_instances = <<>> /\ y_labels = <<>>
    /\ balanced_data_X = <<>> /\ balanced_data_y = <<>>
    /\ again_X = <<>> /\ again_y = <<>>
    /\ AlignIdle /\ CollapseIdle /\ ProbeIdle /\ ExtractIdle

\* train_X, train_y = data_loader(..., layer_idx, target_phonemes)
LoadPairs ==
    /\ pc = "load pairs"
    /\ IF LoaderRaises(hidden_state_dict, loader_layer_idx, target_phonemes)
       THEN pc' = "KeyError" /\ UNCHANGED <<X, y>>
       ELSE /\ pc' = "balance pairs"
            /\ X' = DataLoader(hidden_state_dict, loader_layer_idx, target_phonemes).X
            /\ y' = DataLoader(hidden_state_dict, loader_layer_idx, target_phonemes).y
    /\ UNCHANGED <<hidden_state_dict, loader_layer_idx, target_phonemes,
                   alignVars, balanceVars, collapseVars, probeVars, extractVars>>

\* train_X, train_y = balance_classes(train_X, train_y)
BalancePairs ==
    /\ pc = "balance pairs"
    /\ X_instances' = X /\ y_labels' = y
    /\ IF BalanceRaises(X, y)
       THEN pc' = "ValueError" /\ UNCHANGED <<balanced_data_X, balanced_data_y>>
       ELSE /\ pc' = "pairs balanced"
            /\ balanced_data_X' = BalanceClasses(X, y).X
            /\ balanced_data_y' = BalanceClasses(X, y).y
    /\ UNCHANGED <<again_X, again_y, alignVars, collapseVars, loadVars,
                   probeVars, extractVars>>

NextPairs == LoadPairs \/ BalancePairs

SpecPairs == InitPairs /\ [][NextPairs]_vars

(***************************************************************************)
(* Properties of balance_classes                                           *)
(***************************************************************************)
\* the distinct labels of the input, and the smallest per-label count
InputLabels == {y_labels[i] : i \in 1..Len(y_labels)}

Least ==
    CHOOSE m \in {Count(y_labels, lab) : lab \in InputLabels} :
        \A lab \in InputLabels : m <= Count(y_labels, lab)

\* position i holds the Rank(i)-th instance of its label
Rank(i) == Cardinality({j \in 1..i : y_labels[j] = y_labels[i]})

\* the first position that holds the label of position i
FirstOf(i) ==
    CHOOSE j \in 1..i :
        y_labels[j] = y_labels[i] /\ \A h \in 1..(j - 1) : y_labels[h] # y_labels[i]

\* the positions of the first Least instances of every label
KeptPos == {i \in 1..Len(y_labels) : Rank(i) <= Least}

\* C1: the output holds the labels of the input, each exactly Least times.
C1_EveryClassAtMinimum ==
    /\ pc = "ValueError" => y_labels = <<>>
    /\ pc \in {"balanced", "balanced again"} =>
        /\ Len(balanced_data_X) = Len(balanced_data_y)
        /\ {balanced_data_y[i] : i \in 1..Len(balanced_data_y)} = InputLabels
        /\ \A lab \in InputLabels : Count(balanced_data_y, lab) = Least

\* C1's case: two classes of different sizes were balanced.
C1_Witness ==
    /\ pc = "balanced"
    /\ \E a \in InputLabels : \E b \in InputLabels :
           Count(y_labels, a) < Count(y_labels, b)
    /\ Len(balanced_data_y) < Len(y_labels)

\* C2 as stated: the output is the kept instances in the order in which
\* they appear in the input.
C2_OutputInInputOrder ==
    pc = "balanced" =>
        /\ Len(balanced_data_y) = Cardinality(KeptPos)
        /\ \A a \in KeptPos :
               LET at == 1 + Cardinality({b \in KeptPos : b < a})
               IN  /\ balanced_data_X[at] = X_instances[a]
                   /\ balanced_data_y[at] = y_labels[a]

\* C2 amended: the output is one block per label, the blocks in the order
\* in which the labels are first met in the input, and each block the first
\* Least instances of its label in input order.
C2_OutputInBlocks ==
    pc = "balanced" =>
        /\ Len(balanced_data_y) = Cardinality(KeptPos)
        /\ Len(balanced_data_X) = Cardinality(KeptPos)
        /\ \A a \in KeptPos :
               LET at == 1 + Cardinality({b \in KeptPos :
                                 \/ FirstOf(b) < FirstOf(a)
                                 \/ FirstOf(b) = FirstOf(a) /\ b < a})
               IN  /\ balanced_data_X[at] = X_instances[a]
                   /\ balanced_data_y[at] = y_labels[a]

\* C2's case: the kept instances of two labels alternate in the input, so
\* that blocks and input order differ.
C2_Witness ==
    /\ pc = "balanced"
    /\ \E a \in KeptPos : \E b \in KeptPos : \E c \in KeptPos :
           a < b /\ b < c /\ y_labels[a] = y_labels[c] /\ y_labels[a] # y_labels[b]

\* C3: balancing the balanced lists returns them unchanged, and does not
\* raise.
C3_Idempotent ==
    /\ pc = "ValueError" => y_labels = <<>>
    /\ pc = "balanced again" =>
        /\ again_X = balanced_data_X
        /\ again_y = balanced_data_y
        /\ \A lab \in Classes :
               Count(again_y, lab) = Count(balanced_data_y, lab)

\* C3's case: the first application dropped instances of a larger class,
\* and the second application has run.
C3_Witness ==
    /\ pc = "balanced again"
    /\ Cardinality(InputLabels) >= 2
    /\ Len(balanced_data_y) < Len(y_labels)
    /\ Len(again_y) >= 2

(***************************************************************************)
(* Properties of sort_states_per_phoneme                                   *)
(***************************************************************************)
Layers == 0..(NumLayers - 1)

\* the vectors stored under label p at layer l (none when p is no key)
Stored(l, p) ==
    IF p \in KeySet(frame_states_per_phoneme[l])
    THEN Get(frame_states_per_phoneme[l], p) ELSE <<>>

\* the segments of utterance u (a sequence position) labelled p whose
\* computed range [start_index, stop_index) holds idx
Claiming(u, p, idx) ==
    {k \in 1..ZipLen(data[u]) :
        /\ data[u].utterance[k] = p
        /\ StartIndex(data[u].start[k]) <= idx
        /\ idx < StopIndex(data[u].stop[k])}

\* the same with the exact quotients floor(start / 320), ceil(stop / 320)
ClaimingExact(u, p, idx) ==
    {k \in 1..ZipLen(data[u]) :
        /\ data[u].utterance[k] = p
        /\ data[u].start[k] \div 320 <= idx
        /\ idx < (data[u].stop[k] + 319) \div 320}

\* C5: the frames attributed to a label are exactly those in
\* [floor(start / 320), ceil(stop / 320)) of a segment with that label: an
\* in-range frame of an utterance is stored under p once per such segment.
C5_ExactFrameRange ==
    pc = "sorted" =>
        \A l \in Layers : \A u \in 1..NumUtts : \A p \in Phonemes :
            \A i \in 1..Len(frame_states[l][u]) :
                Count(Stored(l, p), frame_states[l][u][i]) =
                    Cardinality(ClaimingExact(u, p, i - 1))

\* C6: a segment with start = stop contributes no frame: an utterance all of
\* whose segments have start = stop has none of its vectors in the table.
C6_EmptySegmentNoFrames ==
    pc = "sorted" =>
        \A l \in Layers : \A u \in 1..NumUtts :
            (\A k \in 1..ZipLen(data[u]) : data[u].start[k] = data[u].stop[k])
            => \A p \in Phonemes : \A i \in 1..Len(frame_states[l][u]) :
                   Count(Stored(l, p), frame_states[l][u][i]) = 0

\* C7: the call raises no error, and every vector stored at layer l is the
\* vector of an existing frame of some utterance at layer l, whatever the
\* stop offsets are.
C7_OutOfRangeDropped ==
    /\ pc # "IndexError"
    /\ pc = "sorted" =>
        \A l \in Layers : \A e \in 1..Len(frame_states_per_phoneme[l]) :
            \A j \in 1..Len(frame_states_per_phoneme[l][e].val) :
                LET v == frame_states_per_phoneme[l][e].val[j]
                IN  /\ v[1] = l
                    /\ v[2] + 1 \in 1..NumUtts
                    /\ v[3] >= 0
                    /\ v[3] < Len(frame_states[l][v[2] + 1])

\* C7's case: a segment reaches beyond the frames of its utterance, and the
\* sort has returned.
C7_Witness ==
    /\ pc = "sorted"
    /\ \E l \in Layers : \E u \in 1..NumUtts : \E k \in 1..ZipLen(data[u]) :
           /\ StopIndex(data[u].stop[k]) > Len(frame_states[l][u])
           /\ StartIndex(data[u].start[k]) < Len(frame_states[l][u])

\* C8: an in-range frame claimed by k segments is stored k times at each
\* layer, once under the label of each claiming segment, and a frame no
\* segment claims is stored under no label.
C8_OverlapKept ==
    pc = "sorted" =>
        \A l \in Layers : \A u \in 1..NumUtts : \A p \in Phonemes :
            \A i \in 1..Len(frame_states[l][u]) :
                Count(Stored(l, p), frame_states[l][u][i]) =
                    Cardinality(Claiming(u, p, i - 1))

\* C8's case: one frame claimed by two segments with the same label, and
\* another utterance's frame claimed by none.
C8_Witness ==
    /\ pc = "sorted"
    /\ \E l \in Layers : \E u \in 1..NumUtts : \E p \in Phonemes :
       \E i \in 1..Len(frame_states[l][u]) :
           /\ Cardinality(Claiming(u, p, i - 1)) >= 2
           /\ Count(Stored(l, p), frame_states[l][u][i]) >= 2
    /\ \E l \in Layers : \E u \in 1..NumUtts :
       \E i \in 1..Len(frame_states[l][u]) :
           \A p \in Phonemes : Claiming(u, p, i - 1) = {}

\* whether the segments of utterance u are contiguous: one or more
\* segments with start < stop, the first starting at 0 and every other at
\* the stop of the one before
Contiguous(u) ==
    /\ ZipLen(data[u]) >= 1
    /\ Len(data[u].start) = ZipLen(data[u])
    /\ Len(data[u].stop) = ZipLen(data[u])
    /\ data[u].start[1] = 0
    /\ \A k \in 1..ZipLen(data[u]) : data[u].start[k] < data[u].stop[k]
    /\ \A k \in 2..ZipLen(data[u]) : data[u].start[k] = data[u].stop[k - 1]

\* ceil(N / 320) for the last stop N of utterance u
SpanFrames(u) == (data[u].stop[ZipLen(data[u])] + 319) \div 320

\* C15: for an utterance with contiguous segments, every frame below both
\* the frame count and ceil(N / 320) is stored under one label or more, at
\* every layer.
C15_NoGap ==
    pc = "sorted" =>
        \A l \in Layers : \A u \in 1..NumUtts :
            Contiguous(u) =>
                \A i \in 1..Len(frame_states[l][u]) :
                    i <= SpanFrames(u) =>
                        \E p \in Phonemes :
                            Count(Stored(l, p), frame_states[l][u][i]) >= 1

\* C15's case: an utterance of two contiguous segments spanning seven
\* frames, with all seven frames present at a layer, has been sorted.
C15_Witness ==
    /\ pc = "sorted"
    /\ \E l \in Layers : \E u \in 1..NumUtts :
           /\ Contiguous(u)
           /\ ZipLen(data[u]) = 2
           /\ SpanFrames(u) = 7
           /\ Len(frame_states[l][u]) >= 7
           /\ \E p \in Phonemes :
                  Count(Stored(l, p), frame_states[l][u][7]) >= 1

\* whether every utterance has as many frames at every layer
SameLengths ==
    \A l \in Layers : \A u \in 1..NumUtts :
        Len(frame_states[l][u]) = Len(frame_states[0][u])

\* target_phonemes for the labels of the corpus
AlignTargets == {None, <<"m">>}

\* the balanced class distribution of layer l for a target, or the error
ClassDistribution(l, target) ==
    LET loaded == DataLoader(frame_states_per_phoneme, l, target)
    IN  IF LoaderRaises(frame_states_per_phoneme, l, target) THEN <<"KeyError">>
        ELSE IF BalanceRaises(loaded.X, loaded.y) THEN <<"ValueError">>
        ELSE LET labels == BalanceClasses(loaded.X, loaded.y).y
             IN  Counter(labels, Len(labels))

\* C17: when every utterance has as many frames at every layer, every label
\* holds as many vectors at every layer, and the balanced class distribution
\* of every target is the same at every layer.
C17_LayerIndependentCounts ==
    (pc = "sorted" /\ SameLengths) =>
        /\ \A l \in Layers :
              /\ Keys(frame_states_per_phoneme[l]) = Keys(frame_states_per_phoneme[0])
              /\ \A p \in Phonemes : Len(Stored(l, p)) = Len(Stored(0, p))
        /\ \A target \in AlignTargets :
              LET first == ClassDistribution(0, target)
              IN  \A l \in Layers \ {0} : ClassDistribution(l, target) = first

\* C17's case: with equal frame counts at all layers, the last layer holds
\* one label more often than the other, and balancing drops vectors.
C17_Witness ==
    /\ pc = "sorted"
    /\ SameLengths
    /\ Len(Stored(NumLayers - 1, "m")) >= 2
    /\ Len(Stored(NumLayers - 1, "n")) = 1
    /\ ClassDistribution(NumLayers - 1, None) =
           <<[key |-> "m", val |-> 1], [key |-> "n", val |-> 1]>>

(***************************************************************************)
(* Properties of phoneme_mapping and data_loader                           *)
(***************************************************************************)
\* C9: the lookup of every TIMIT label but 'q' returns a coarse label, and
\* the coarse labels returned for them are 39.
C9_MappingTotal ==
    /\ (pc = "KeyError" /\ phoneme \in TimitLabels) => phoneme = "q"
    /\ (pc = "collapsed" /\ phoneme \in TimitLabels) =>
           coarse = phoneme_mapping[phoneme]
    /\ Cardinality({Lookup(p).label : p \in TimitLabels \ {"q"}}) = 39
    /\ Cardinality(TimitLabels) = 61

\* C9's case: a label that collapses onto another one has been looked up.
C9_Witness == pc = "collapsed" /\ phoneme \in TimitLabels /\ coarse # phoneme

\* the labels of the table with a vector that data_loader selects
Selected ==
    {hidden_state_dict[loader_layer_idx][e].key :
        e \in {e \in 1..Len(hidden_state_dict[loader_layer_idx]) :
                 /\ hidden_state_dict[loader_layer_idx][e].key # "q"
                 /\ \E j \in 1..Len(hidden_state_dict[loader_layer_idx][e].val) :
                        hidden_state_dict[loader_layer_idx][e].val[j] # None
                 /\ \/ target_phonemes = None
                    \/ \E t \in 1..Len(target_phonemes) :
                           target_phonemes[t] =
                               hidden_state_dict[loader_layer_idx][e].key}}

\* C10: no output label stands for a label the mapping does not know, and a
\* call that selects a vector under such a label ends in an error.
C10_NoDefaultLabel ==
    /\ pc = "loaded" =>
        /\ \A i \in 1..Len(y) : \E p \in DOMAIN phoneme_mapping : y[i] = phoneme_mapping[p]
        /\ \A i \in 1..Len(y) : y[i] \notin LoadLabels \ DOMAIN phoneme_mapping
        /\ Selected \subseteq DOMAIN phoneme_mapping
    /\ (pc # "load" /\ ~(Selected \subseteq DOMAIN phoneme_mapping)) =>
           pc = "KeyError" /\ X = <<>> /\ y = <<>>

\* C10's case: a call that selected a vector under the unknown label has
\* ended.
C10_Witness ==
    /\ pc = "KeyError"
    /\ Unknown \in Selected
    /\ \E p \in Selected : p \in DOMAIN phoneme_mapping

\* the keys of the table passed to data_loader, at the layer loaded
LoadKeys == KeySet(hidden_state_dict[loader_layer_idx])

\* C11: whatever the table and target_phonemes, no vector stored under 'q'
\* is returned in X, and a call fails only for an unmapped label other than
\* 'q': with every other key of the table mapped, the call returns.
C11_QExcluded ==
    /\ pc = "loaded" => \A i \in 1..Len(X) : X[i][2] # "q"
    /\ pc = "KeyError" => \E p \in Selected : p # "q" /\ p \notin DOMAIN phoneme_mapping
    /\ (pc # "load" /\ LoadKeys \ {"q"} \subseteq DOMAIN phoneme_mapping) => pc = "loaded"

\* C11's case: a call that names 'q' among its targets, on a table that
\* holds a vector under 'q', has returned other vectors.
C11_Witness ==
    /\ pc = "loaded"
    /\ target_phonemes # None
    /\ \E t \in 1..Len(target_phonemes) : target_phonemes[t] = "q"
    /\ \E e \in 1..Len(hidden_state_dict[loader_layer_idx]) :
           /\ hidden_state_dict[loader_layer_idx][e].key = "q"
           /\ \E j \in 1..Len(hidden_state_dict[loader_layer_idx][e].val) :
                  hidden_state_dict[loader_layer_idx][e].val[j] # None
    /\ X # <<>>

(***************************************************************************)
(* Properties of extract_hidden_states                                     *)
(***************************************************************************)
\* the frames the encoder produced for waveform w at layer l, in frame order
Produced(l, w) ==
    IF l < Len(hidden_states[w]) THEN hidden_states[w][l + 1][1] ELSE <<>>

\* C12: the table returned has an entry for every layer below num_layers and
\* every waveform, each entry is exactly the frames the encoder produced for
\* that waveform at that layer, in frame order, and at every moment of the
\* loop an entry holds frames of its own waveform only.
C12_FramesPerLayerAndUtterance ==
    /\ pc \in {"extract", "extracted", "KeyError"} =>
        /\ DOMAIN frame_states = 0..(NumLayers - 1)
        /\ \A l \in DOMAIN frame_states :
              /\ DOMAIN frame_states[l] = DOMAIN hidden_states
              /\ \A w \in DOMAIN hidden_states :
                  \A i \in 1..Len(frame_states[l][w]) :
                      frame_states[l][w][i][2] = w
    /\ pc = "extracted" =>
        \A l \in 0..(NumLayers - 1) : \A w \in DOMAIN hidden_states :
            frame_states[l][w] = Produced(l, w)

\* C12's case: two waveforms of two frames at the last layer have been
\* extracted from an encoder of num_layers layers.
C12_Witness ==
    /\ pc = "extracted"
    /\ \E w \in DOMAIN hidden_states : w > 0
    /\ \A w \in DOMAIN hidden_states :
          /\ Len(hidden_states[w]) = NumLayers
          /\ Len(frame_states[NumLayers - 1][w]) = 2

(***************************************************************************)
(* Properties of data_loader followed by balance_classes                   *)
(***************************************************************************)
\* how many places of the lists Xs, ys hold the pair <<v, label>>
PairCount(Xs, ys, v, label) ==
    Cardinality({i \in 1..Len(Xs) : Xs[i] = v /\ ys[i] = label})

\* C16: data_loader returns two lists of one length, each pair a vector of
\* the table stored under a wanted label p, with the label phoneme_mapping[p];
\* balance_classes returns two lists of one length, each pair a pair of its
\* input, no more often than the input holds it.
C16_PairingKept ==
    /\ pc \in {"balance pairs", "pairs balanced", "ValueError"} =>
        /\ Len(X) = Len(y)
        /\ \A i \in 1..Len(X) :
              \E e \in 1..Len(hidden_state_dict[loader_layer_idx]) :
                  LET item == hidden_state_dict[loader_layer_idx][e]
                  IN  /\ \E j \in 1..Len(item.val) : item.val[j] = X[i]
                      /\ item.key # "q"
                      /\ \/ target_phonemes = None
                         \/ \E t \in 1..Len(target_phonemes) :
                                target_phonemes[t] = item.key
                      /\ item.key \in DOMAIN phoneme_mapping
                      /\ y[i] = phoneme_mapping[item.key]
    /\ pc = "pairs balanced" =>
        /\ Len(balanced_data_X) = Len(balanced_data_y)
        /\ \A i \in 1..Len(balanced_data_X) :
              /\ PairCount(X, y, balanced_data_X[i], balanced_data_y[i]) >= 1
              /\ PairCount(balanced_data_X, balanced_data_y,
                           balanced_data_X[i], balanced_data_y[i])
                     <= PairCount(X, y, balanced_data_X[i], balanced_data_y[i])

\* C16's case: a vector under "em" has been loaded with the label "m", the
\* loaded lists hold one pair twice, and balancing has dropped a pair.
C16_Witness ==
    /\ pc = "pairs balanced"
    /\ \E i \in 1..Len(X) : X[i][2] = "em" /\ y[i] = "m"
    /\ \E i \in 1..Len(X) : PairCount(X, y, X[i], y[i]) = 2
    /\ Len(balanced_data_X) < Len(X)
    /\ Len(balanced_data_X) >= 2

(***************************************************************************)
(* Properties of the probing loop                                          *)
(***************************************************************************)
\* C4: a balanced dataset of fewer than two classes is reported and not
\* scored: whenever a pass has appended its accuracy, the train and the test
\* labels of that pass have two classes or more.
C4_DegenerateReported ==
    (pc = "probe" /\ accs # <<>>) =>
        /\ Cardinality(LabelSet(train_y)) >= 2
        /\ Cardinality(LabelSet(test_y)) >= 2

\* a probe that has not been fitted
Unfitted == [classes |-> {}, first |-> ""]

\* the accuracy of the pass of category g (a place in phoneme_dict) and
\* layer l, computed from the two tables alone
ExpectedAcc(g, l) ==
    LET target == phoneme_dict[g].val
        trainL == DataLoader(phoneme_states_train, l, target)
        trainB == BalanceClasses(trainL.X, trainL.y)
        testL  == DataLoader(phoneme_states_test, l, target)
        testB  == BalanceClasses(testL.X, testL.y)
    IN  AccuracyScore(testB.y,
                      Predict(Fit(Unfitted, trainB.X, trainB.y), testB.X))

\* C13: when the loop has finished, accs_per_category holds one sequence for
\* each category of phoneme_dict, in its order; each sequence has num_layers
\* entries, the entry at place l + 1 being the accuracy of layer l, a
\* fraction matches / total between 0 and 1.
C13_AccuraciesPerCategoryAndLayer ==
    pc = "done" =>
        /\ Len(accs_per_category) = Len(phoneme_dict)
        /\ \A g \in 1..Len(accs_per_category) :
              /\ Len(accs_per_category[g]) = NumLayers
              /\ \A l \in 0..(NumLayers - 1) :
                    /\ accs_per_category[g][l + 1] = ExpectedAcc(g, l)
                    /\ accs_per_category[g][l + 1][1] >= 0
                    /\ accs_per_category[g][l + 1][1] <= accs_per_category[g][l + 1][2]
                    /\ accs_per_category[g][l + 1][2] > 0

\* C13's case: a finished loop in which the accuracies of the first and of
\* the last layer differ for one category and not for another.
C13_Witness ==
    /\ pc = "done"
    /\ \E g \in 1..Len(accs_per_category) :
           accs_per_category[g][1] # accs_per_category[g][NumLayers]
    /\ \E g \in 1..Len(accs_per_category) :
           accs_per_category[g][1] = accs_per_category[g][NumLayers]

\* the labels a category of phoneme_dict asks for
TargetSet(g) == LabelSet(phoneme_dict[g].val)

=============================================================================
